---- MODULE Spec2Model ----
(***************************************************************************)
(* Bit-addressable readers of pkg/bitio/reader.go: Reader (over an         *)
(* io.ReadSeeker), SectionBitReader (a window of a BitReaderAt) and        *)
(* MultiBitReader (a concatenation of BitReadAtSeekers); and the decode     *)
(* loop of the H.265 access unit format, which splits a buffer into          *)
(* length-prefixed NAL units.                                              *)
(***************************************************************************)
EXTENDS Integers, Sequences, FiniteSets, TLC

VARIABLES
    rd,      \* sequence of Reader structs [bitPos, rs, buf]; rs = [data, pos]
    sec,     \* sequence of SectionBitReader structs [r, bitBase, bitOff, bitLimit]
    multi,   \* sequence (empty or one) of MultiBitReader structs [pos, readers, readerEnds]
    held,    \* the readers the caller holds and calls: <<type, index>>
    last,    \* the last call made and what it returned
    au       \* the access unit decode: [buf, lengthSize, pos, nalus, state]

vars == <<rd, sec, multi, held, last, au>>

----------------------------------------------------------------------------
\* Bounds of the model

\* longest byte source, in bytes
MaxLen == 2
\* largest cursor a seek is allowed to produce, in bits beyond 8*MaxLen
MaxPast == 2

\* requested bit counts (one negative)
NBitsSet == {-1, 0, 4, 8, 12}
\* bit offsets given to ReadBitsAt
Offsets == 0 .. (8 * MaxLen + MaxPast)
\* offsets given to SeekBits
SeekOffs == {-9, -4, 0, 3, 8}
\* lengths of the byte slice given to Read
PLens == {0, 1, 2}

\* most NAL units in an access unit buffer
MaxUnits == 3
\* longest NAL unit, in bytes
MaxUnitLen == 2
\* sizes of the length prefix, in bytes
LengthSizes == {1, 2}

----------------------------------------------------------------------------
\* Go values

SeekStart == 0
SeekCurrent == 1
SeekEnd == 2
Whences == {SeekStart, SeekCurrent, SeekEnd}

NoErr == "nil"
EOF == "io.EOF"
ErrUnexpectedEOF == "io.ErrUnexpectedEOF"
ErrNegativeNBits == "ErrNegativeNBits"
ErrOffset == "ErrOffset"
ErrSeek == "seek error"
\* a run-time panic of the call, in place of a return
Panic == "panic: index out of range"

\* Go's integer division and remainder truncate toward zero
GoDiv(a, b) == IF a >= 0 THEN a \div b ELSE -((-a) \div b)
GoMod(a, b) == a - b * GoDiv(a, b)

Min(a, b) == IF a <= b THEN a ELSE b
Max(a, b) == IF a >= b THEN a ELSE b

Pow2(k) == 2 ^ k

\* content of the byte sources: byte i (from 0) of pattern k
SrcByte(k, i) ==
    IF k = 1 THEN (IF i = 0 THEN 255 ELSE IF i = 1 THEN 0 ELSE (165 + 91 * i) % 256)
             ELSE (165 + 151 * i) % 256
Patterns == {1, 2}
SrcData(k, len) == [i \in 1 .. len |-> SrcByte(k, i - 1)]

----------------------------------------------------------------------------
\* Helpers of package bitio

BitsByteCount(nBits) == (nBits \div 8) + (IF nBits % 8 # 0 THEN 1 ELSE 0)

\* bit k (from 0, most significant first) of a byte sequence
BitAt(buf, k) == (buf[(k \div 8) + 1] \div Pow2(7 - (k % 8))) % 2

RECURSIVE Read64(_, _, _)
Read64(buf, firstBit, nBits) ==
    IF nBits = 0 THEN 0
    ELSE 2 * Read64(buf, firstBit, nBits - 1) + BitAt(buf, firstBit + nBits - 1)

----------------------------------------------------------------------------
\* The io.ReadSeeker a Reader wraps: rs = [data, pos]

RsSeek(rs, offset, whence) ==
    LET abs == IF whence = SeekStart THEN offset
               ELSE IF whence = SeekCurrent THEN rs.pos + offset
               ELSE Len(rs.data) + offset
    IN IF abs < 0 THEN [rs |-> rs, pos |-> 0, err |-> ErrSeek]
       ELSE [rs |-> [rs EXCEPT !.pos = abs], pos |-> abs, err |-> NoErr]

\* io.ReadFull(rs, b) with len(b) = want
ReadFull(rs, want) ==
    LET avail == Max(0, Len(rs.data) - rs.pos)
        n == Min(want, avail)
    IN [rs |-> [rs EXCEPT !.pos = rs.pos + n],
        n |-> n,
        bytes |-> [i \in 1 .. n |-> rs.data[rs.pos + i]],
        err |-> IF n = want THEN NoErr
                ELSE IF n = 0 THEN EOF ELSE ErrUnexpectedEOF]

----------------------------------------------------------------------------
\* Reader

NewReaderFromReadSeeker(data) ==
    [bitPos |-> 0, rs |-> [data |-> data, pos |-> 0], buf |-> <<>>]

\* a slow path that leaves the bits of a trailing partial byte right-aligned
SlowBytesRightAligned(buf, readSkipBits, nBits) ==
    LET nBytes == nBits \div 8
        restBits == nBits % 8
    IN [i \in 1 .. (nBytes + (IF restBits # 0 THEN 1 ELSE 0)) |->
           IF i <= nBytes
           THEN Read64(buf, readSkipBits + (i - 1) * 8, 8) % 256
           ELSE Read64(buf, readSkipBits + nBytes * 8, restBits) % 256]

\* the bytes the slow path writes to p
SlowBytes(buf, readSkipBits, nBits) ==
    LET nBytes == nBits \div 8
        restBits == nBits % 8
    IN [i \in 1 .. (nBytes + (IF restBits # 0 THEN 1 ELSE 0)) |->
           IF i <= nBytes
           THEN Read64(buf, readSkipBits + (i - 1) * 8, 8) % 256
           ELSE (Read64(buf, readSkipBits + nBytes * 8, restBits)
                   * Pow2(8 - restBits)) % 256]

\* Reader.ReadBitsAt: [r: the reader afterwards, n, err, p: the bytes written to p]
ReaderReadBitsAt(r, nBits, bitOffset) ==
    IF nBits < 0 THEN [r |-> r, n |-> 0, err |-> ErrNegativeNBits, p |-> <<>>]
    ELSE
    LET readBytePos == GoDiv(bitOffset, 8)
        readSkipBits == GoMod(bitOffset, 8)
        wantReadBits == readSkipBits + nBits
        wantReadBytes == BitsByteCount(wantReadBits)
        buf1 == IF wantReadBytes > Len(r.buf)
                THEN [i \in 1 .. wantReadBytes |-> 0] ELSE r.buf
        sk == RsSeek(r.rs, readBytePos, SeekStart)
        rf == ReadFull(sk.rs, wantReadBytes)
        buf2 == [i \in 1 .. Len(buf1) |-> IF i <= rf.n THEN rf.bytes[i] ELSE buf1[i]]
        r2 == [r EXCEPT !.rs = rf.rs, !.buf = buf2]
        nBits2 == IF rf.err = ErrUnexpectedEOF THEN rf.n * 8 ELSE nBits
        err2 == IF rf.err = ErrUnexpectedEOF THEN EOF ELSE rf.err
    IN IF sk.err # NoErr
       THEN [r |-> [r EXCEPT !.buf = buf1], n |-> 0, err |-> sk.err, p |-> <<>>]
       ELSE IF rf.err # NoErr /\ rf.err # ErrUnexpectedEOF
       THEN [r |-> r2, n |-> 0, err |-> rf.err, p |-> <<>>]
       ELSE IF readSkipBits = 0 /\ nBits2 % 8 = 0
       THEN [r |-> r2, n |-> nBits2, err |-> err2, p |-> SubSeq(buf2, 1, rf.n)]
       ELSE [r |-> r2, n |-> nBits2, err |-> err2,
             p |-> SlowBytes(buf2, readSkipBits, nBits2)]

\* r.bitPos += int64(rBits), in the result res of ReadBitsAt
ReaderAdvance(r, res) ==
    [res EXCEPT !.r = [res.r EXCEPT !.bitPos = r.bitPos + res.n]]

\* Reader.ReadBits
ReaderReadBits(r, nBits) ==
    ReaderAdvance(r, ReaderReadBitsAt(r, nBits, r.bitPos))

\* a SeekBits that drops the bit remainder bitOff % 8
ReaderSeekBitsWholeBytes(r, bitOff, whence) ==
    LET sk == RsSeek(r.rs, GoDiv(bitOff, 8), whence)
        seekBitPos == sk.pos * 8
    IN IF sk.err # NoErr THEN [r |-> r, pos |-> 0, err |-> sk.err]
       ELSE [r |-> [r EXCEPT !.rs = sk.rs, !.bitPos = seekBitPos],
             pos |-> seekBitPos, err |-> NoErr]

\* Reader.SeekBits: [r, pos, err]
ReaderSeekBits(r, bitOff, whence) ==
    LET sk == RsSeek(r.rs, GoDiv(bitOff, 8), whence)
        seekBitPos == sk.pos * 8 + GoMod(bitOff, 8)
    IN IF sk.err # NoErr THEN [r |-> r, pos |-> 0, err |-> sk.err]
       ELSE [r |-> [r EXCEPT !.rs = sk.rs, !.bitPos = seekBitPos],
             pos |-> seekBitPos, err |-> NoErr]

\* Reader.Read: n is the byte count returned, bits the bits read
ReaderReadRet(res) ==
    [r |-> res.r, n |-> BitsByteCount(res.n), bits |-> res.n, err |-> res.err,
     p |-> res.p]
ReaderRead(r, lenP) ==
    ReaderReadRet(ReaderAdvance(r, ReaderReadBitsAt(r, lenP * 8, r.bitPos)))

\* Reader.Seek
ReaderSeek(r, offset, whence) ==
    LET sk == RsSeek(r.rs, offset, whence)
    IN IF sk.err # NoErr THEN [r |-> r, pos |-> 0, err |-> sk.err]
       ELSE [r |-> [r EXCEPT !.rs = sk.rs, !.bitPos = sk.pos * 8],
             pos |-> sk.pos, err |-> NoErr]

----------------------------------------------------------------------------
\* SectionBitReader; its r is the index in rd of the Reader it reads from

NewSectionBitReader(r, bitOff, nBits) ==
    [r |-> r, bitBase |-> bitOff, bitOff |-> bitOff, bitLimit |-> bitOff + nBits]

\* r.r.ReadBitsAt(p, nBits, bitOff) on the Reader rds[i], and the record of it
ParentReadBitsAt(rds, i, nBits, bitOff) ==
    [res |-> ReaderReadBitsAt(rds[i], nBits, bitOff),
     req |-> <<[seg |-> i, nBits |-> nBits, bitOff |-> bitOff]>>]
ParentRet(rds, i, d) ==
    [rd |-> [rds EXCEPT ![i] = d.res.r], n |-> d.res.n, err |-> d.res.err,
     p |-> d.res.p, req |-> d.req]

\* a ReadBitsAt that does not cut nBits to the bits left in the section
SectionReadBitsAtUnclamped(rds, s, nBits, bitOff) ==
    IF bitOff < 0 \/ bitOff >= s.bitLimit - s.bitBase
    THEN [rd |-> rds, n |-> 0, err |-> EOF, p |-> <<>>, req |-> <<>>]
    ELSE ParentRet(rds, s.r, ParentReadBitsAt(rds, s.r, nBits, bitOff + s.bitBase))

\* SectionBitReader.ReadBitsAt: [rd: the readers afterwards, n, err, p,
\* req: the call made on the parent, if any]
SectionReadBitsAt(rds, s, nBits, bitOff) ==
    IF bitOff < 0 \/ bitOff >= s.bitLimit - s.bitBase
    THEN [rd |-> rds, n |-> 0, err |-> EOF, p |-> <<>>, req |-> <<>>]
    ELSE
    LET off2 == bitOff + s.bitBase
        maxBits == s.bitLimit - off2
    IN IF nBits > maxBits
       THEN ParentRet(rds, s.r, ParentReadBitsAt(rds, s.r, maxBits, off2))
       ELSE ParentRet(rds, s.r, ParentReadBitsAt(rds, s.r, nBits, off2))

\* r.bitOff += int64(rBits), in the result res of ReadBitsAt
SectionAdvance(s, res) ==
    [rd |-> res.rd, s |-> [s EXCEPT !.bitOff = s.bitOff + res.n],
     n |-> res.n, err |-> res.err, p |-> res.p, req |-> res.req]
\* SectionBitReader.ReadBits: also s, the section afterwards
SectionReadBits(rds, s, nBits) ==
    SectionAdvance(s, SectionReadBitsAt(rds, s, nBits, s.bitOff - s.bitBase))

\* a SeekBits that accepts a target before the start of the section
SectionSeekBitsNoLower(s, bitOff, whence) ==
    LET bitOff2 == IF whence = SeekStart THEN bitOff + s.bitBase
                   ELSE IF whence = SeekCurrent THEN bitOff + s.bitOff
                   ELSE bitOff + s.bitLimit
    IN [s |-> [s EXCEPT !.bitOff = bitOff2], pos |-> bitOff2 - s.bitBase,
        err |-> NoErr]

\* SectionBitReader.SeekBits: [s, pos, err]
SectionSeekBits(s, bitOff, whence) ==
    LET bitOff2 == IF whence = SeekStart THEN bitOff + s.bitBase
                   ELSE IF whence = SeekCurrent THEN bitOff + s.bitOff
                   ELSE bitOff + s.bitLimit
    IN IF bitOff2 < s.bitBase THEN [s |-> s, pos |-> 0, err |-> ErrOffset]
       ELSE [s |-> [s EXCEPT !.bitOff = bitOff2], pos |-> bitOff2 - s.bitBase,
             err |-> NoErr]

\* a Read that returns the whole bytes read, rounded down
SectionReadRetFloor(res) ==
    [rd |-> res.rd, s |-> res.s, n |-> res.n \div 8, bits |-> res.n,
     err |-> res.err, p |-> res.p, req |-> res.req]

\* SectionBitReader.Read
SectionReadRet(res) ==
    [rd |-> res.rd, s |-> res.s, n |-> BitsByteCount(res.n), bits |-> res.n,
     err |-> res.err, p |-> res.p, req |-> res.req]
SectionRead(rds, s, lenP) ==
    SectionReadRet(
        SectionAdvance(s, SectionReadBitsAt(rds, s, lenP * 8, s.bitOff - s.bitBase)))

\* SectionBitReader.Seek
SectionSeekRet(res) == [s |-> res.s, pos |-> GoDiv(res.pos, 8), err |-> res.err]
SectionSeek(s, offset, whence) ==
    SectionSeekRet(SectionSeekBits(s, offset * 8, whence))

----------------------------------------------------------------------------
\* MultiBitReader; its readers are <<"Reader", i>> (rd[i]) or <<"Section", k>> (sec[k])

\* ReadBitsAt of a segment, by its type
SegReadBitsAt(rds, secs, seg, nBits, bitOff) ==
    IF seg[1] = "Reader"
    THEN ParentRet(rds, seg[2], ParentReadBitsAt(rds, seg[2], nBits, bitOff))
    ELSE SectionReadBitsAt(rds, secs[seg[2]], nBits, bitOff)

\* EndPos of a segment: SeekBits(0, SeekEnd), the cursor put back afterwards
EndPos(rds, secs, seg) ==
    IF seg[1] = "Reader"
    THEN ReaderSeekBits(rds[seg[2]], 0, SeekEnd).pos
    ELSE SectionSeekBits(secs[seg[2]], 0, SeekEnd).pos

RECURSIVE EndsSum(_, _, _, _)
EndsSum(rds, secs, rs, i) ==
    IF i = 0 THEN 0 ELSE EndsSum(rds, secs, rs, i - 1) + EndPos(rds, secs, rs[i])

NewMultiBitReader(rds, secs, rs) ==
    [pos |-> 0, readers |-> rs,
     readerEnds |-> [i \in 1 .. Len(rs) |-> EndsSum(rds, secs, rs, i)]]

MultiEnd(m) == IF Len(m.readers) > 0 THEN m.readerEnds[Len(m.readers)] ELSE 0

\* the scan of readerEnds from segment i on (from 1): the segment it breaks
\* at, or the first segment when it runs to the end
RECURSIVE MultiScan(_, _, _)
MultiScan(readerEnds, bitOff, i) ==
    IF i > Len(readerEnds) THEN 1
    ELSE IF bitOff < readerEnds[i] THEN i
    ELSE MultiScan(readerEnds, bitOff, i + 1)

\* a scan that gives an offset equal to a segment's end to that segment
RECURSIVE MultiScanInclusive(_, _, _)
MultiScanInclusive(readerEnds, bitOff, i) ==
    IF i > Len(readerEnds) THEN 1
    ELSE IF bitOff <= readerEnds[i] THEN i
    ELSE MultiScanInclusive(readerEnds, bitOff, i + 1)

MultiReaderAtInclusive(m, bitOff) == MultiScanInclusive(m.readerEnds, bitOff, 1)

\* the segment the scan of readerEnds stops at (from 1)
MultiReaderAt(m, bitOff) == MultiScan(m.readerEnds, bitOff, 1)

\* what ReadBitsAt returns, from the result res of the segment's ReadBitsAt
MultiRet(res, end, i, nBits, bitOff, prevAtEnd) ==
    [rd |-> res.rd, n |-> res.n,
     err |-> IF res.err = EOF /\ bitOff + res.n < end THEN NoErr ELSE res.err,
     p |-> res.p,
     req |-> <<[seg |-> i, nBits |-> nBits, bitOff |-> bitOff - prevAtEnd]>>]

\* MultiBitReader.ReadBitsAt
MultiReadBitsAt(rds, secs, m, nBits, bitOff) ==
    LET end == MultiEnd(m)
        i == MultiReaderAt(m, bitOff)
        prevAtEnd == IF i = 1 THEN 0 ELSE m.readerEnds[i - 1]
    IN IF end <= bitOff
       THEN [rd |-> rds, n |-> 0, err |-> EOF, p |-> <<>>, req |-> <<>>]
       ELSE IF Len(m.readers) = 0
       \* readerAt := m.readers[0] of an empty slice
       THEN [rd |-> rds, n |-> 0, err |-> Panic, p |-> <<>>, req |-> <<>>]
       ELSE MultiRet(SegReadBitsAt(rds, secs, m.readers[i], nBits, bitOff - prevAtEnd),
                     end, i, nBits, bitOff, prevAtEnd)

\* m.pos += int64(n), in the result res of ReadBitsAt
MultiAdvance(m, res) ==
    [rd |-> res.rd, m |-> [m EXCEPT !.pos = m.pos + res.n],
     n |-> res.n, err |-> res.err, p |-> res.p, req |-> res.req]
\* MultiBitReader.ReadBits: also m, the reader afterwards
MultiReadBits(rds, secs, m, nBits) ==
    MultiAdvance(m, MultiReadBitsAt(rds, secs, m, nBits, m.pos))

\* a SeekBits that accepts every target from 0 on, beyond the end too
MultiSeekBitsNoUpper(m, bitOff, whence) ==
    LET end == MultiEnd(m)
        p == IF whence = SeekStart THEN bitOff
             ELSE IF whence = SeekCurrent THEN m.pos + bitOff
             ELSE end + bitOff
    IN IF p < 0 THEN [m |-> m, pos |-> 0, err |-> ErrOffset]
       ELSE [m |-> [m EXCEPT !.pos = p], pos |-> p, err |-> NoErr]

\* MultiBitReader.SeekBits: [m, pos, err]
MultiSeekBits(m, bitOff, whence) ==
    LET end == MultiEnd(m)
        p == IF whence = SeekStart THEN bitOff
             ELSE IF whence = SeekCurrent THEN m.pos + bitOff
             ELSE end + bitOff
    IN IF p < 0 \/ p > end THEN [m |-> m, pos |-> 0, err |-> ErrOffset]
       ELSE [m |-> [m EXCEPT !.pos = p], pos |-> p, err |-> NoErr]

\* MultiBitReader.Read
MultiReadRet(res) ==
    [rd |-> res.rd, m |-> res.m, n |-> BitsByteCount(res.n), bits |-> res.n,
     err |-> res.err, p |-> res.p, req |-> res.req]
MultiRead(rds, secs, m, lenP) ==
    MultiReadRet(MultiAdvance(m, MultiReadBitsAt(rds, secs, m, lenP * 8, m.pos)))

\* MultiBitReader.Seek
MultiSeekRet(res) == [m |-> res.m, pos |-> GoDiv(res.pos, 8), err |-> res.err]
MultiSeek(m, offset, whence) ==
    MultiSeekRet(MultiSeekBits(m, offset * 8, whence))

----------------------------------------------------------------------------
\* Construction

\* largest cursor the caller seeks to
MaxCursor == 8 * MaxLen + MaxPast

\* byte offsets given to Seek
ByteOffs == {-1, 0, 1}

\* windows a SectionBitReader is opened on, over a parent of MaxLen bytes:
\* inside the data, empty, and ending past the data
SectionShapes ==
    {[base |-> 0, n |-> 0]}
      \cup {[base |-> b, n |-> n] : b \in {0, 3}, n \in {5, 8 * MaxLen - 2}}

\* what a segment of a MultiBitReader is built as: a Reader over a byte of
\* its own, or a Section of the shared Reader: inside its data, empty, or
\* ending past its data
SegR == [k |-> "Reader", base |-> 0, n |-> 8]
SegS == [k |-> "Section", base |-> 3, n |-> 5]
SegZ == [k |-> "Section", base |-> 0, n |-> 0]
SegX == [k |-> "Section", base |-> 8 * MaxLen - 4, n |-> 8]

SegLists ==
    {<<>>, <<SegR>>, <<SegR, SegR>>, <<SegS, SegR>>, <<SegR, SegS>>,
     <<SegX, SegR>>, <<SegS, SegX>>, <<SegZ, SegR>>, <<SegR, SegZ, SegS>>}

\* no access unit is being decoded
NoAU == [buf |-> <<>>, lengthSize |-> 0, pos |-> 0, nalus |-> <<>>, state |-> "none"]

NoCall ==
    [obj |-> <<"none", 0>>, op |-> "none", nBits |-> 0, off |-> 0, whence |-> 0,
     n |-> 0, nBytes |-> 0, err |-> NoErr, p |-> <<>>, pos |-> 0, cur0 |-> 0,
     req |-> <<>>, prev |-> <<>>]

\* The caller makes any number of calls and the model observes one of them:
\* that call and what it returned are kept in last, and the run ends there.
Ready == last.op = "none"
Observe(obs, call) == IF obs THEN call ELSE NoCall
\* An observed SeekBits may be followed by one ReadBits of the same reader,
\* observed too; its record keeps the seek in prev.
ReadyAfterSeek(obj, obs) ==
    Ready \/ (obs /\ last.op = "SeekBits" /\ last.obj = obj)
PrevSeek ==
    IF last.op = "SeekBits"
    THEN <<[off |-> last.off, whence |-> last.whence, err |-> last.err, pos |-> last.pos]>>
    ELSE <<>>

\* a Reader alone over a source of 0 .. MaxLen bytes
InitReader ==
    \E k \in Patterns, len \in 0 .. MaxLen :
        /\ (k = 1 \/ len = MaxLen)
        /\ rd = <<NewReaderFromReadSeeker(SrcData(k, len))>>
        /\ sec = <<>>
        /\ multi = <<>>
        /\ held = {<<"Reader", 1>>}
        /\ last = NoCall
        /\ au = NoAU

\* a SectionBitReader over a Reader
InitSection ==
    \E sh \in SectionShapes :
        /\ rd = <<NewReaderFromReadSeeker(SrcData(2, MaxLen))>>
        /\ sec = <<NewSectionBitReader(1, sh.base, sh.n)>>
        /\ multi = <<>>
        /\ held = {<<"Section", 1>>}
        /\ last = NoCall
        /\ au = NoAU

\* index in rd, or in sec, of segment j of a list of kinds; rd[1] is the
\* Reader the Section segments read from
KindIdx(ks, j) ==
    IF ks[j].k = "Reader"
    THEN 1 + Cardinality({i \in 1 .. j : ks[i].k = "Reader"})
    ELSE Cardinality({i \in 1 .. j : ks[i].k = "Section"})

\* a MultiBitReader over Sections of one Reader and over Readers of their own
InitMulti ==
    \E ks \in SegLists :
        LET nR == Cardinality({i \in 1 .. Len(ks) : ks[i].k = "Reader"})
            nS == Cardinality({i \in 1 .. Len(ks) : ks[i].k = "Section"})
            segOf(t, x) == CHOOSE j \in 1 .. Len(ks) : ks[j].k = t /\ KindIdx(ks, j) = x
            rds == [i \in 1 .. (1 + nR) |->
                      IF i = 1 THEN NewReaderFromReadSeeker(SrcData(1, MaxLen))
                      ELSE NewReaderFromReadSeeker(
                               SrcData(2, ks[segOf("Reader", i)].n \div 8))]
            secs == [x \in 1 .. nS |->
                      NewSectionBitReader(1, ks[segOf("Section", x)].base,
                                          ks[segOf("Section", x)].n)]
            rs == [j \in 1 .. Len(ks) |-> <<ks[j].k, KindIdx(ks, j)>>]
        IN /\ rd = rds
           /\ sec = secs
           /\ multi = <<NewMultiBitReader(rds, secs, rs)>>
           /\ held = {<<"Multi", 1>>}
           /\ last = NoCall
           /\ au = NoAU

\* windows of two Sections opened on one Reader of MaxLen bytes: overlapping,
\* the first one ending past the data; and apart, both inside the data
SharedShapes ==
    {<<[base |-> 3, n |-> 8 * MaxLen - 2], [base |-> 0, n |-> 8 * MaxLen - 2]>>,
     <<[base |-> 0, n |-> 5], [base |-> 8, n |-> 5]>>}

\* two SectionBitReaders over the same Reader
InitShared ==
    \E sh \in SharedShapes :
        /\ rd = <<NewReaderFromReadSeeker(SrcData(2, MaxLen))>>
        /\ sec = <<NewSectionBitReader(1, sh[1].base, sh[1].n),
                   NewSectionBitReader(1, sh[2].base, sh[2].n)>>
        /\ multi = <<>>
        /\ held = {<<"Section", 1>>, <<"Section", 2>>}
        /\ last = NoCall
        /\ au = NoAU

\* the buffers given to the access unit decoder: NAL units of 0 .. MaxUnitLen
\* bytes, each after its length in lengthSize bytes, most significant first
UnitLists == UNION {[1 .. n -> 0 .. MaxUnitLen] : n \in 0 .. MaxUnits}

EncodeUnit(l, lengthSize) ==
    [i \in 1 .. lengthSize |-> (l \div (256 ^ (lengthSize - i))) % 256]
        \o [i \in 1 .. l |-> SrcByte(2, i)]

RECURSIVE EncodeUnits(_, _, _)
EncodeUnits(units, lengthSize, i) ==
    IF i > Len(units) THEN <<>>
    ELSE EncodeUnit(units[i], lengthSize) \o EncodeUnits(units, lengthSize, i + 1)

\* the decoder is given a buffer of whole units, or one cut short by a byte
InitAU ==
    \E units \in UnitLists, lengthSize \in LengthSizes, cut \in {0, 1} :
        LET whole == EncodeUnits(units, lengthSize, 1)
        IN /\ cut <= Len(whole)
           /\ au = [buf |-> SubSeq(whole, 1, Len(whole) - cut),
                    lengthSize |-> lengthSize, pos |-> 0, nalus |-> <<>>,
                    state |-> "run"]
           /\ rd = <<>>
           /\ sec = <<>>
           /\ multi = <<>>
           /\ held = {}
           /\ last = NoCall

Init == InitReader \/ InitSection \/ InitMulti \/ InitAU

----------------------------------------------------------------------------
\* Calls on a Reader

RReadBitsAt(i, nBits, bitOffset, obs) ==
    /\ Ready
    /\ <<"Reader", i>> \in held
    /\ \E res \in {ReaderReadBitsAt(rd[i], nBits, bitOffset)} :
           /\ rd' = [rd EXCEPT ![i] = res.r]
           /\ last' = Observe(obs, [NoCall EXCEPT !.obj = <<"Reader", i>>, !.op = "ReadBitsAt",
                          !.nBits = nBits, !.off = bitOffset, !.n = res.n,
                          !.err = res.err, !.p = res.p, !.cur0 = rd[i].bitPos])
           /\ UNCHANGED <<au, sec, multi, held>>

RReadBits(i, nBits, obs) ==
    /\ ReadyAfterSeek(<<"Reader", i>>, obs)
    /\ <<"Reader", i>> \in held
    /\ rd[i].bitPos >= 0
    /\ \E res \in {ReaderReadBits(rd[i], nBits)} :
           /\ rd' = [rd EXCEPT ![i] = res.r]
           /\ last' = Observe(obs, [NoCall EXCEPT !.obj = <<"Reader", i>>, !.op = "ReadBits",
                          !.nBits = nBits, !.off = rd[i].bitPos, !.n = res.n,
                          !.err = res.err, !.p = res.p, !.cur0 = rd[i].bitPos,
                          !.prev = PrevSeek])
           /\ UNCHANGED <<au, sec, multi, held>>

RSeekBits(i, bitOff, whence, obs) ==
    /\ Ready
    /\ <<"Reader", i>> \in held
    /\ \E res \in {ReaderSeekBits(rd[i], bitOff, whence)} :
           /\ res.pos <= MaxCursor
           /\ rd' = [rd EXCEPT ![i] = res.r]
           /\ last' = Observe(obs, [NoCall EXCEPT !.obj = <<"Reader", i>>, !.op = "SeekBits",
                          !.off = bitOff, !.whence = whence, !.pos = res.pos,
                          !.err = res.err, !.cur0 = rd[i].bitPos])
           /\ UNCHANGED <<au, sec, multi, held>>

RRead(i, lenP, obs) ==
    /\ Ready
    /\ <<"Reader", i>> \in held
    /\ rd[i].bitPos >= 0
    /\ \E res \in {ReaderRead(rd[i], lenP)} :
           /\ rd' = [rd EXCEPT ![i] = res.r]
           /\ last' = Observe(obs, [NoCall EXCEPT !.obj = <<"Reader", i>>, !.op = "Read",
                          !.nBits = lenP * 8, !.off = rd[i].bitPos, !.n = res.bits,
                          !.nBytes = res.n, !.err = res.err, !.p = res.p,
                          !.cur0 = rd[i].bitPos])
           /\ UNCHANGED <<au, sec, multi, held>>

RSeek(i, offset, whence, obs) ==
    /\ Ready
    /\ <<"Reader", i>> \in held
    /\ \E res \in {ReaderSeek(rd[i], offset, whence)} :
           /\ res.pos * 8 <= MaxCursor
           /\ rd' = [rd EXCEPT ![i] = res.r]
           /\ last' = Observe(obs, [NoCall EXCEPT !.obj = <<"Reader", i>>, !.op = "Seek",
                          !.off = offset, !.whence = whence, !.pos = res.pos,
                          !.err = res.err, !.cur0 = rd[i].bitPos])
           /\ UNCHANGED <<au, sec, multi, held>>

----------------------------------------------------------------------------
\* Calls on a SectionBitReader

SReadBitsAt(k, nBits, bitOff, obs) ==
    /\ Ready
    /\ <<"Section", k>> \in held
    /\ \E res \in {SectionReadBitsAt(rd, sec[k], nBits, bitOff)} :
           /\ rd' = res.rd
           /\ last' = Observe(obs, [NoCall EXCEPT !.obj = <<"Section", k>>, !.op = "ReadBitsAt",
                          !.nBits = nBits, !.off = bitOff, !.n = res.n,
                          !.err = res.err, !.p = res.p, !.req = res.req,
                          !.cur0 = sec[k].bitOff - sec[k].bitBase])
           /\ UNCHANGED <<au, sec, multi, held>>

SReadBits(k, nBits, obs) ==
    /\ ReadyAfterSeek(<<"Section", k>>, obs)
    /\ <<"Section", k>> \in held
    /\ \E res \in {SectionReadBits(rd, sec[k], nBits)} :
           /\ rd' = res.rd
           /\ sec' = [sec EXCEPT ![k] = res.s]
           /\ last' = Observe(obs, [NoCall EXCEPT !.obj = <<"Section", k>>, !.op = "ReadBits",
                          !.nBits = nBits, !.off = sec[k].bitOff - sec[k].bitBase,
                          !.n = res.n, !.err = res.err, !.p = res.p, !.req = res.req,
                          !.cur0 = sec[k].bitOff - sec[k].bitBase,
                          !.prev = PrevSeek])
           /\ UNCHANGED <<au, multi, held>>

SSeekBits(k, bitOff, whence, obs) ==
    /\ Ready
    /\ <<"Section", k>> \in held
    /\ \E res \in {SectionSeekBits(sec[k], bitOff, whence)} :
           /\ res.pos <= MaxCursor
           /\ sec' = [sec EXCEPT ![k] = res.s]
           /\ last' = Observe(obs, [NoCall EXCEPT !.obj = <<"Section", k>>, !.op = "SeekBits",
                          !.off = bitOff, !.whence = whence, !.pos = res.pos,
                          !.err = res.err, !.cur0 = sec[k].bitOff - sec[k].bitBase])
           /\ UNCHANGED <<au, rd, multi, held>>

SRead(k, lenP, obs) ==
    /\ Ready
    /\ <<"Section", k>> \in held
    /\ \E res \in {SectionRead(rd, sec[k], lenP)} :
           /\ rd' = res.rd
           /\ sec' = [sec EXCEPT ![k] = res.s]
           /\ last' = Observe(obs, [NoCall EXCEPT !.obj = <<"Section", k>>, !.op = "Read",
                          !.nBits = lenP * 8, !.off = sec[k].bitOff - sec[k].bitBase,
                          !.n = res.bits, !.nBytes = res.n, !.err = res.err,
                          !.p = res.p, !.req = res.req,
                          !.cur0 = sec[k].bitOff - sec[k].bitBase])
           /\ UNCHANGED <<au, multi, held>>

SSeek(k, offset, whence, obs) ==
    /\ Ready
    /\ <<"Section", k>> \in held
    /\ \E res \in {SectionSeek(sec[k], offset, whence)} :
           /\ res.pos * 8 <= MaxCursor
           /\ sec' = [sec EXCEPT ![k] = res.s]
           /\ last' = Observe(obs, [NoCall EXCEPT !.obj = <<"Section", k>>, !.op = "Seek",
                          !.off = offset, !.whence = whence, !.pos = res.pos,
                          !.err = res.err, !.cur0 = sec[k].bitOff - sec[k].bitBase])
           /\ UNCHANGED <<au, rd, multi, held>>

----------------------------------------------------------------------------
\* Calls on a MultiBitReader

\* a negative offset is given to a reader without segments only
MReadBitsAt(nBits, bitOff, obs) ==
    /\ Ready
    /\ <<"Multi", 1>> \in held
    /\ (bitOff >= 0 \/ multi[1].readers = <<>>)
    /\ \E res \in {MultiReadBitsAt(rd, sec, multi[1], nBits, bitOff)} :
           /\ rd' = res.rd
           /\ last' = Observe(obs, [NoCall EXCEPT !.obj = <<"Multi", 1>>, !.op = "ReadBitsAt",
                          !.nBits = nBits, !.off = bitOff, !.n = res.n,
                          !.err = res.err, !.p = res.p, !.req = res.req,
                          !.cur0 = multi[1].pos])
           /\ UNCHANGED <<au, sec, multi, held>>

MReadBits(nBits, obs) ==
    /\ ReadyAfterSeek(<<"Multi", 1>>, obs)
    /\ <<"Multi", 1>> \in held
    /\ \E res \in {MultiReadBits(rd, sec, multi[1], nBits)} :
           /\ rd' = res.rd
           /\ multi' = <<res.m>>
           /\ last' = Observe(obs, [NoCall EXCEPT !.obj = <<"Multi", 1>>, !.op = "ReadBits",
                          !.nBits = nBits, !.off = multi[1].pos, !.n = res.n,
                          !.err = res.err, !.p = res.p, !.req = res.req,
                          !.cur0 = multi[1].pos,
                          !.prev = PrevSeek])
           /\ UNCHANGED <<au, sec, held>>

MSeekBits(bitOff, whence, obs) ==
    /\ Ready
    /\ <<"Multi", 1>> \in held
    /\ \E res \in {MultiSeekBits(multi[1], bitOff, whence)} :
           /\ multi' = <<res.m>>
           /\ last' = Observe(obs, [NoCall EXCEPT !.obj = <<"Multi", 1>>, !.op = "SeekBits",
                          !.off = bitOff, !.whence = whence, !.pos = res.pos,
                          !.err = res.err, !.cur0 = multi[1].pos])
           /\ UNCHANGED <<au, rd, sec, held>>

MRead(lenP, obs) ==
    /\ Ready
    /\ <<"Multi", 1>> \in held
    /\ \E res \in {MultiRead(rd, sec, multi[1], lenP)} :
           /\ rd' = res.rd
           /\ multi' = <<res.m>>
           /\ last' = Observe(obs, [NoCall EXCEPT !.obj = <<"Multi", 1>>, !.op = "Read",
                          !.nBits = lenP * 8, !.off = multi[1].pos, !.n = res.bits,
                          !.nBytes = res.n, !.err = res.err, !.p = res.p,
                          !.req = res.req, !.cur0 = multi[1].pos])
           /\ UNCHANGED <<au, sec, held>>

MSeek(offset, whence, obs) ==
    /\ Ready
    /\ <<"Multi", 1>> \in held
    /\ \E res \in {MultiSeek(multi[1], offset, whence)} :
           /\ multi' = <<res.m>>
           /\ last' = Observe(obs, [NoCall EXCEPT !.obj = <<"Multi", 1>>, !.op = "Seek",
                          !.off = offset, !.whence = whence, !.pos = res.pos,
                          !.err = res.err, !.cur0 = multi[1].pos])
           /\ UNCHANGED <<au, rd, sec, held>>

----------------------------------------------------------------------------
\* The decode loop of hevcAUDecode, on the decoder d = [buf, pos]

\* d.NotEnd()
NotEnd(d) == d.pos < 8 * Len(d.buf)

\* d.FieldU(name, nBits): [ok, v], the unsigned integer of the next nBits bits
FieldU(d, nBits) ==
    IF d.pos + nBits > 8 * Len(d.buf) THEN [ok |-> FALSE, v |-> 0]
    ELSE [ok |-> TRUE, v |-> Read64(d.buf, d.pos, nBits)]

\* d.FieldFormatLen(name, nBits, group, in): ok when the next nBits bits are
\* in the buffer; the nested stream is [from, to)
FieldFormatLen(from, nBits, buf) ==
    [ok |-> from + nBits <= 8 * Len(buf), from |-> from, to |-> from + nBits]

\* an iteration that decodes the length and leaves the nested stream unread
AUStepLengthOnly(a) ==
    LET nBits == a.lengthSize * 8
        l == FieldU(a, nBits)
    IN IF ~l.ok THEN [a EXCEPT !.state = "error"]
       ELSE [a EXCEPT !.pos = a.pos + nBits,
                      !.nalus = Append(@, [start |-> a.pos, lengthBits |-> nBits,
                                           l |-> l.v, from |-> a.pos + nBits,
                                           to |-> a.pos + nBits])]

\* one iteration: d.FieldStruct("nalu", ...) with the length and the nested unit
AUStep(a) ==
    LET nBits == a.lengthSize * 8
        l == FieldU(a, nBits)
        f == FieldFormatLen(a.pos + nBits, l.v * 8, a.buf)
    IN IF ~l.ok THEN [a EXCEPT !.state = "error"]
       ELSE IF ~f.ok THEN [a EXCEPT !.state = "error", !.pos = f.from]
       ELSE [a EXCEPT !.pos = f.to,
                      !.nalus = Append(@, [start |-> a.pos, lengthBits |-> nBits,
                                           l |-> l.v, from |-> f.from,
                                           to |-> f.to])]

\* for d.NotEnd() { ... }
AUNalu ==
    /\ au.state = "run"
    /\ NotEnd(au)
    /\ au' = AUStep(au)
    /\ UNCHANGED <<rd, sec, multi, held, last>>

\* return nil
AUReturn ==
    /\ au.state = "run"
    /\ ~NotEnd(au)
    /\ au' = [au EXCEPT !.state = "done"]
    /\ UNCHANGED <<rd, sec, multi, held, last>>

NextAU == AUNalu \/ AUReturn

----------------------------------------------------------------------------

NextReader ==
    \/ \E obs \in BOOLEAN, i \in DOMAIN rd, n \in NBitsSet, o \in Offsets : RReadBitsAt(i, n, o, obs)
    \/ \E obs \in BOOLEAN, i \in DOMAIN rd, n \in NBitsSet : RReadBits(i, n, obs)
    \/ \E obs \in BOOLEAN, i \in DOMAIN rd, o \in SeekOffs, w \in Whences : RSeekBits(i, o, w, obs)
    \/ \E obs \in BOOLEAN, i \in DOMAIN rd, l \in PLens : RRead(i, l, obs)
    \/ \E obs \in BOOLEAN, i \in DOMAIN rd, o \in ByteOffs, w \in Whences : RSeek(i, o, w, obs)

NextSection ==
    \/ \E obs \in BOOLEAN, k \in DOMAIN sec, n \in NBitsSet, o \in Offsets \cup {-1} : SReadBitsAt(k, n, o, obs)
    \/ \E obs \in BOOLEAN, k \in DOMAIN sec, n \in NBitsSet : SReadBits(k, n, obs)
    \/ \E obs \in BOOLEAN, k \in DOMAIN sec, o \in SeekOffs, w \in Whences : SSeekBits(k, o, w, obs)
    \/ \E obs \in BOOLEAN, k \in DOMAIN sec, l \in PLens : SRead(k, l, obs)
    \/ \E obs \in BOOLEAN, k \in DOMAIN sec, o \in ByteOffs, w \in Whences : SSeek(k, o, w, obs)

NextMulti ==
    \/ \E obs \in BOOLEAN, n \in NBitsSet, o \in Offsets \cup {-1} : MReadBitsAt(n, o, obs)
    \/ \E obs \in BOOLEAN, n \in NBitsSet : MReadBits(n, obs)
    \/ \E obs \in BOOLEAN, o \in SeekOffs, w \in Whences : MSeekBits(o, w, obs)
    \/ \E obs \in BOOLEAN, l \in PLens : MRead(l, obs)
    \/ \E obs \in BOOLEAN, o \in ByteOffs, w \in Whences : MSeek(o, w, obs)

\* the calls made on two Sections of one Reader
NextShared ==
    \/ \E obs \in BOOLEAN, k \in DOMAIN sec, n \in NBitsSet : SReadBits(k, n, obs)
    \/ \E obs \in BOOLEAN, k \in DOMAIN sec, o \in SeekOffs, w \in Whences : SSeekBits(k, o, w, obs)
    \/ \E obs \in BOOLEAN, k \in DOMAIN sec, l \in PLens : SRead(k, l, obs)

Next == NextReader \/ NextSection \/ NextMulti \/ NextAU

\* every construction, every call
Spec == Init /\ [][Next]_vars

\* one reader type at a time
SpecReader == InitReader /\ [][NextReader]_vars
SpecSection == InitSection /\ [][NextSection]_vars
SpecMulti == InitMulti /\ [][NextMulti]_vars

\* two Sections sharing their parent
SpecShared == InitShared /\ [][NextShared]_vars

\* the access unit decoder, run to its end
SpecAU == InitAU /\ [][NextAU]_vars /\ WF_vars(NextAU)

----------------------------------------------------------------------------
\* What the properties read off a state

LastIs(type, op) == last.obj[1] = type /\ last.op = op

\* bits in the byte source of Reader i
SrcBits(i) == 8 * Len(rd[i].rs.data)

\* length and cursor of a held reader, in its own coordinates
LengthOf(o) ==
    IF o[1] = "Reader" THEN SrcBits(o[2])
    ELSE IF o[1] = "Section" THEN sec[o[2]].bitLimit - sec[o[2]].bitBase
    ELSE MultiEnd(multi[1])
CursorOf(o) ==
    IF o[1] = "Reader" THEN rd[o[2]].bitPos
    ELSE IF o[1] = "Section" THEN sec[o[2]].bitOff - sec[o[2]].bitBase
    ELSE multi[1].pos

\* what a call returns, without the state it leaves
Returned(res) == [n |-> res.n, err |-> res.err, p |-> res.p]

\* what ReadBitsAt(nBits, bitOff) of a held reader would return now
ReadBitsAtOf(o, nBits, bitOff) ==
    IF o[1] = "Reader" THEN Returned(ReaderReadBitsAt(rd[o[2]], nBits, bitOff))
    ELSE IF o[1] = "Section"
    THEN Returned(SectionReadBitsAt(rd, sec[o[2]], nBits, bitOff))
    ELSE Returned(MultiReadBitsAt(rd, sec, multi[1], nBits, bitOff))

\* what ReadBits(nBits) of a held reader would return now
ReadBitsOf(o, nBits) ==
    IF o[1] = "Reader" THEN Returned(ReaderReadBits(rd[o[2]], nBits))
    ELSE IF o[1] = "Section" THEN Returned(SectionReadBits(rd, sec[o[2]], nBits))
    ELSE Returned(MultiReadBits(rd, sec, multi[1], nBits))

\* what SeekBits(0, SeekCurrent) of a held reader would return now
SeekCurrentOf(o) ==
    IF o[1] = "Reader" THEN ReaderSeekBits(rd[o[2]], 0, SeekCurrent).pos
    ELSE IF o[1] = "Section" THEN SectionSeekBits(sec[o[2]], 0, SeekCurrent).pos
    ELSE MultiSeekBits(multi[1], 0, SeekCurrent).pos

\* byte i (from 1) of the nBits bits of data from bit bitOff on, most
\* significant bit first, the bits after the last one zero
ExpectedByte(data, bitOff, nBits, i) ==
    LET bit(j) == IF (i - 1) * 8 + j < nBits
                  THEN BitAt(data, bitOff + (i - 1) * 8 + j) ELSE 0
    IN 128 * bit(0) + 64 * bit(1) + 32 * bit(2) + 16 * bit(3)
         + 8 * bit(4) + 4 * bit(5) + 2 * bit(6) + bit(7)

----------------------------------------------------------------------------
\* C1: on every reader type, a ReadBitsAt or ReadBits with nBits >= 0 at a
\* non-negative bit offset never returns a bit count greater than nBits.
C1_ReadAtMostRequested ==
    (last.op \in {"ReadBitsAt", "ReadBits"} /\ last.nBits >= 0 /\ last.off >= 0)
        => last.n <= last.nBits

\* C2: a Reader over L bytes asked for bits past the end of the source
\* (bitOffset + nBits > 8*L) returns io.EOF and the bits available from
\* bitOffset, max(0, 8*L - bitOffset), aligned or not.
C2_ReaderTruncation ==
    (LastIs("Reader", "ReadBitsAt") /\ last.nBits >= 0
       /\ last.off + last.nBits > SrcBits(last.obj[2]))
        => (last.err = EOF /\ last.n = Max(0, SrcBits(last.obj[2]) - last.off))

\* C3: a read with nBits < 0 fails with ErrNegativeNBits on every reader
\* type, at every bit offset from 0 on.
C3_NegativeLength ==
    (last.op \in {"ReadBitsAt", "ReadBits"} /\ last.nBits < 0 /\ last.off >= 0)
        => last.err = ErrNegativeNBits

C5_SectionShortReadEOF ==
    LET s == sec[last.obj[2]]
        n == s.bitLimit - s.bitBase
    IN (LastIs("Section", "ReadBitsAt") /\ s.bitLimit < SrcBits(s.r)
          /\ 0 <= last.off /\ last.off < n /\ last.off + last.nBits > n)
           => (last.n = n - last.off /\ last.err = EOF)

\* C6: a ReadBitsAt on a MultiBitReader that lands in segment i with
\* cumulative end E_i, asks for bits past E_i (o + nBits > E_i) and is not in
\* the last stretch (E_i below the total length) returns E_i - o bits and no
\* io.EOF or error.
C6_MultiStraddle ==
    (LastIs("Multi", "ReadBitsAt") /\ last.req # <<>>)
        => LET m == multi[1]
               e == m.readerEnds[last.req[1].seg]
           IN (last.off + last.nBits > e /\ e < MultiEnd(m))
                  => (last.n = e - last.off /\ last.err = NoErr)

\* C7: SeekBits of a Reader over L bytes with the cursor at c returns, and
\* sets the cursor to, off (start), c + off (current) or 8*L + off (end),
\* whenever that target is >= 0.
C7_ReaderSeekWhence ==
    LastIs("Reader", "SeekBits")
        => LET target == IF last.whence = SeekStart THEN last.off
                         ELSE IF last.whence = SeekCurrent THEN last.cur0 + last.off
                         ELSE SrcBits(last.obj[2]) + last.off
           IN target >= 0
                  => /\ last.err = NoErr
                     /\ last.pos = target
                     /\ rd[last.obj[2]].bitPos = target

\* C8: a ReadBitsAt on any reader type leaves its cursor state as it was:
\* SeekBits(0, SeekCurrent) and ReadBits return after it what they would
\* have returned before it.
C8_ReadBitsAtKeepsCursor ==
    [][\A o \in held :
          (last'.op = "ReadBitsAt" /\ last'.obj = o /\ CursorOf(o) >= 0)
              => /\ SeekCurrentOf(o)' = SeekCurrentOf(o)
                 /\ \A n \in NBitsSet : ReadBitsOf(o, n)' = ReadBitsOf(o, n)]_vars

\* C9: on every reader type, with 0 <= bitOffset and bitOffset + nBits within
\* the reader's length, SeekBits(bitOffset, SeekStart) followed by
\* ReadBits(nBits) returns the bytes, bit count and error that
\* ReadBitsAt(nBits, bitOffset) returns, and leaves the cursor at bitOffset
\* plus the bits read.
C9_StatefulAgreesWithReadAt ==
    [][\A o \in held :
          (/\ last.op = "SeekBits" /\ last.obj = o
           /\ last.whence = SeekStart /\ last.err = NoErr
           /\ last'.op = "ReadBits" /\ last'.obj = o
           /\ last'.nBits >= 0 /\ last.off >= 0
           /\ last.off + last'.nBits <= LengthOf(o))
              => /\ Returned(last') = ReadBitsAtOf(o, last'.nBits, last.off)
                 /\ CursorOf(o)' = last.off + last'.n]_vars

\* a MultiBitReader sought to an unaligned offset, whose ReadBits then stops
\* at the end of a segment with fewer bits than asked for
C9_Witness ==
    /\ LastIs("Multi", "ReadBits")
    /\ last.prev # <<>>
    /\ last.prev[1].whence = SeekStart
    /\ last.prev[1].err = NoErr
    /\ last.prev[1].off % 8 # 0
    /\ last.prev[1].off + last.nBits <= MultiEnd(multi[1])
    /\ 0 < last.n
    /\ last.n < last.nBits
    /\ multi[1].pos = last.prev[1].off + last.n

\* C10: a Reader's ReadBitsAt inside the source (bitOffset + nBits <= 8*L)
\* writes ceil(nBits/8) bytes whose bit j, most significant first, is source
\* bit bitOffset + j, the low bits of a last partial byte zero; an aligned
\* read of whole bytes is a copy of the source bytes.
C10_ReaderBitContent ==
    (LastIs("Reader", "ReadBitsAt") /\ last.nBits >= 0
       /\ last.off + last.nBits <= SrcBits(last.obj[2]))
        => LET data == rd[last.obj[2]].rs.data
           IN /\ last.n = last.nBits
              /\ Len(last.p) = BitsByteCount(last.nBits)
              /\ \A i \in 1 .. Len(last.p) :
                    last.p[i] = ExpectedByte(data, last.off, last.nBits, i)
              /\ (last.off % 8 = 0 /\ last.nBits % 8 = 0)
                    => last.p = SubSeq(data, last.off \div 8 + 1,
                                       (last.off + last.nBits) \div 8)

\* over the bytes 0xFF, 0x00: 12 bits at offset 4 are 0xF0, 0x00
C10_Witness ==
    /\ LastIs("Reader", "ReadBitsAt")
    /\ rd[last.obj[2]].rs.data = <<255, 0>>
    /\ last.nBits = 12
    /\ last.off = 4
    /\ last.p = <<240, 0>>

----------------------------------------------------------------------------
\* the length of segment j of the MultiBitReader, read off the segment itself
SegLength(j) == LengthOf(multi[1].readers[j])

RECURSIVE SegLengthSum(_)
SegLengthSum(j) == IF j = 0 THEN 0 ELSE SegLengthSum(j - 1) + SegLength(j)

\* C11: with T the sum of the segments' lengths (0 without segments) and the
\* cursor at c, SeekBits(off, whence) of a MultiBitReader has the target p =
\* off (start), c + off (current) or T + off (end); when 0 <= p <= T it
\* returns p with no error and the cursor is p, otherwise it returns
\* ErrOffset and the cursor stays c.
C11_MultiSeekRange ==
    LastIs("Multi", "SeekBits")
        => LET T == SegLengthSum(Len(multi[1].readers))
               p == IF last.whence = SeekStart THEN last.off
                    ELSE IF last.whence = SeekCurrent THEN last.cur0 + last.off
                    ELSE T + last.off
           IN IF 0 <= p /\ p <= T
              THEN last.err = NoErr /\ last.pos = p /\ multi[1].pos = p
              ELSE last.err = ErrOffset /\ multi[1].pos = last.cur0

\* a seek relative to a cursor moved off the start, to a target beyond the
\* end of a MultiBitReader of two segments: refused, the cursor kept
C11_Witness ==
    /\ LastIs("Multi", "SeekBits")
    /\ Len(multi[1].readers) = 2
    /\ last.whence = SeekCurrent
    /\ last.cur0 > 0
    /\ last.cur0 + last.off > MultiEnd(multi[1])
    /\ last.err = ErrOffset
    /\ multi[1].pos = last.cur0

\* C12: the total length T of a MultiBitReader is the sum of its segments'
\* lengths; a SeekBits to exactly T succeeds; a ReadBits with the cursor at
\* T, a ReadBitsAt at an offset at or beyond T, and every read of a reader
\* without segments return zero bits and io.EOF, the cursor left at T.
C12_MultiEndOfStream ==
    LET T == SegLengthSum(Len(multi[1].readers))
        target == IF last.whence = SeekStart THEN last.off
                  ELSE IF last.whence = SeekCurrent THEN last.cur0 + last.off
                  ELSE T + last.off
    IN /\ multi # <<>> => MultiEnd(multi[1]) = T
       /\ (LastIs("Multi", "SeekBits") /\ target = T)
             => (last.err = NoErr /\ last.pos = T /\ multi[1].pos = T)
       /\ (LastIs("Multi", "ReadBits") /\ last.cur0 = T)
             => (last.n = 0 /\ last.err = EOF /\ multi[1].pos = T)
       /\ (LastIs("Multi", "ReadBitsAt") /\ last.off >= T)
             => (last.n = 0 /\ last.err = EOF)
       /\ (last.obj[1] = "Multi" /\ last.op \in {"ReadBitsAt", "ReadBits", "Read"}
              /\ multi[1].readers = <<>>)
             => (last.n = 0 /\ last.err = EOF /\ multi[1].pos = T)


\* C13: on a Section of length n with the cursor at c, SeekBits has the
\* target off (start), c + off (current) or n + off (end); a negative target
\* returns ErrOffset and leaves the cursor at c, every other target, at or
\* beyond n too, is returned with no error and becomes the cursor; a
\* ReadBits with the cursor at or beyond n returns zero bits and io.EOF and
\* leaves the cursor where it is.
C13_SectionSeek ==
    LET s == sec[last.obj[2]]
        n == s.bitLimit - s.bitBase
        target == IF last.whence = SeekStart THEN last.off
                  ELSE IF last.whence = SeekCurrent THEN last.cur0 + last.off
                  ELSE n + last.off
    IN /\ LastIs("Section", "SeekBits")
             => IF target < 0
                THEN last.err = ErrOffset /\ s.bitOff - s.bitBase = last.cur0
                ELSE /\ last.err = NoErr
                     /\ last.pos = target
                     /\ s.bitOff - s.bitBase = target
       /\ (LastIs("Section", "ReadBits") /\ last.cur0 >= n)
             => /\ last.n = 0
                /\ last.err = EOF
                /\ s.bitOff - s.bitBase = last.cur0

\* a Section of 5 bits sought beyond its end, the seek accepted, and the
\* ReadBits of 8 bits after it
C13_Witness ==
    /\ LastIs("Section", "ReadBits")
    /\ sec[last.obj[2]].bitLimit - sec[last.obj[2]].bitBase = 5
    /\ last.prev # <<>>
    /\ last.prev[1].err = NoErr
    /\ last.prev[1].pos > 5
    /\ last.nBits = 8
    /\ last.n = 0
    /\ last.err = EOF
    /\ CursorOf(last.obj) = last.prev[1].pos

\* C14: on every reader type, Read(p) with the cursor at c returns what
\* ReadBitsAt(len(p)*8, c) returns: its bytes, its error (io.EOF exactly when
\* the bit read returned it) and, as the byte count, its bit count rounded
\* up to whole bytes; the cursor ends at c plus the bits read, and at most
\* one read is made on the reader below.
C14_ReadAdapter ==
    [][\A o \in held :
          (last'.op = "Read" /\ last'.obj = o)
              => LET r == ReadBitsAtOf(o, last'.nBits, CursorOf(o))
                 IN /\ last'.n = r.n
                    /\ last'.err = r.err
                    /\ last'.p = r.p
                    /\ last'.nBytes * 8 >= r.n
                    /\ last'.nBytes * 8 < r.n + 8
                    /\ CursorOf(o)' = CursorOf(o) + r.n
                    /\ Len(last'.req) <= 1]_vars

\* a Read of one byte through a Section with 5 bits left: 5 bits read, one
\* byte reported, the cursor 5 bits on
C14_Witness ==
    /\ LastIs("Section", "Read")
    /\ last.nBits = 8
    /\ last.n = 5
    /\ last.nBytes = 1
    /\ last.err = NoErr
    /\ CursorOf(last.obj) = last.cur0 + 5

\* C15: the cursor of a MultiBitReader of total length T stays within
\* 0 .. T in every state the calls ReadBits, Read, ReadBitsAt, SeekBits and
\* Seek reach.
C15_MultiCursorInRange ==
    multi # <<>> => (0 <= multi[1].pos /\ multi[1].pos <= MultiEnd(multi[1]))

\* C16: a ReadBitsAt of a MultiBitReader at an offset o with 0 <= o < total
\* length makes exactly one read, on the segment with the smallest index i
\* whose cumulative end E_i is above o, at the local offset o - E_(i-1); an
\* offset equal to an end belongs to the next segment, and a segment of
\* length 0 is never read.
C16_MultiResolution ==
    (LastIs("Multi", "ReadBitsAt") /\ 0 <= last.off
       /\ last.off < MultiEnd(multi[1]))
        => LET ends == multi[1].readerEnds
               i == CHOOSE x \in DOMAIN ends :
                        /\ last.off < ends[x]
                        /\ \A y \in 1 .. (x - 1) : ends[y] <= last.off
           IN /\ Len(last.req) = 1
              /\ last.req[1].seg = i
              /\ last.req[1].bitOff = last.off - (IF i = 1 THEN 0 ELSE ends[i - 1])
              /\ SegLength(i) > 0

\* segments of 8, 0 and 5 bits: a read at offset 8, the end of the first and
\* of the second, goes to the third at its local offset 0
C16_Witness ==
    /\ LastIs("Multi", "ReadBitsAt")
    /\ multi[1].readerEnds = <<8, 8, 13>>
    /\ last.off = 8
    /\ last.req = <<[seg |-> 3, nBits |-> last.nBits, bitOff |-> 0]>>

\* C17: a ReadBits of a MultiBitReader with nBits >= 1 and the cursor below
\* the total length returns at least one bit or an error or io.EOF, never
\* zero bits with no error, also when a segment is a Section declared longer
\* than the data its parent holds.
C17_MultiReadBitsProgress ==
    (LastIs("Multi", "ReadBits") /\ last.nBits >= 1
       /\ 0 <= last.cur0 /\ last.cur0 < MultiEnd(multi[1]))
        => (last.n >= 1 \/ last.err # NoErr)

\* C18: what a Reader's ReadBitsAt(nBits, bitOffset) returns, its bit count,
\* its error and the bytes it writes, is what a Reader newly made over the
\* same bytes returns for the same call, whatever reads came before.
C18_ScratchHistoryFree ==
    (LastIs("Reader", "ReadBitsAt") /\ last.nBits >= 0)
        => [n |-> last.n, err |-> last.err, p |-> last.p]
             = Returned(ReaderReadBitsAt(
                   NewReaderFromReadSeeker(rd[last.obj[2]].rs.data),
                   last.nBits, last.off))

\* C19: with two Sections over one parent Reader, a ReadBits, Read or
\* SeekBits on one of them leaves the other's cursor as it was, leaves what
\* the other's ReadBits would return (bytes, bit count, error) as it was, and
\* leaves the parent's own cursor as it was.
C19_SharedParentIndependent ==
    [][\A k \in DOMAIN sec, j \in DOMAIN sec :
          (/\ j # k
           /\ last'.obj = <<"Section", k>>
           /\ last'.op \in {"ReadBits", "Read", "SeekBits"})
              => /\ sec'[j] = sec[j]
                 /\ \A n \in NBitsSet :
                       Returned(SectionReadBits(rd', sec'[j], n))
                         = Returned(SectionReadBits(rd, sec[j], n))
                 /\ rd'[sec[k].r].bitPos = rd[sec[k].r].bitPos]_vars

----------------------------------------------------------------------------
\* the buffer from bit pos on is a row of whole units: a length of
\* lengthSize bytes, then that many bytes
RECURSIVE WholeUnits(_, _, _)
WholeUnits(buf, lengthSize, pos) ==
    IF pos = Len(buf) THEN TRUE
    ELSE /\ pos + lengthSize <= Len(buf)
         /\ LET l == Read64(buf, 8 * pos, 8 * lengthSize)
            IN /\ pos + lengthSize + l <= Len(buf)
               /\ WholeUnits(buf, lengthSize, pos + lengthSize + l)

RECURSIVE UnitCount(_, _, _)
UnitCount(buf, lengthSize, pos) ==
    IF pos >= Len(buf) THEN 0
    ELSE 1 + UnitCount(buf, lengthSize,
                       pos + lengthSize + Read64(buf, 8 * pos, 8 * lengthSize))

AUWellFormed == au.lengthSize >= 1 /\ WholeUnits(au.buf, au.lengthSize, 0)

\* the value of the lengthSize bytes from byte k (from 0) on, most
\* significant first
BigEndian(buf, k, lengthSize) ==
    IF lengthSize = 1 THEN buf[k + 1] ELSE 256 * buf[k + 1] + buf[k + 2]

AUNalusTile ==
    /\ au.state # "error"
    /\ \A i \in DOMAIN au.nalus :
          LET u == au.nalus[i]
          IN /\ u.start = (IF i = 1 THEN 0 ELSE au.nalus[i - 1].to)
             /\ u.lengthBits = au.lengthSize * 8
             /\ u.l = BigEndian(au.buf, u.start \div 8, au.lengthSize)
             /\ u.from = u.start + u.lengthBits
             /\ u.to = u.from + u.l * 8
             /\ u.to > u.start
             /\ u.to <= 8 * Len(au.buf)
    /\ au.pos = (IF au.nalus = <<>> THEN 0 ELSE au.nalus[Len(au.nalus)].to)
    /\ au.state = "done"
          => /\ au.pos = 8 * Len(au.buf)
             /\ Len(au.nalus) = UnitCount(au.buf, au.lengthSize, 0)

\* C20: given a length size >= 1 and a buffer of whole units, hevcAUDecode
\* emits one nalu per unit, each a length field of lengthSize*8 bits, most
\* significant first, with value l, followed by a nested stream of l*8 bits;
\* the units follow one another from bit 0 without gap or overlap, each
\* iteration moves the position on by lengthSize*8 + l*8 > 0 bits, and the
\* loop ends, with the position at the end of the buffer.
C20_AUDecodeLoop ==
    /\ [](AUWellFormed => AUNalusTile)
    /\ <>(AUWellFormed => au.state = "done")

\* a buffer of three units with 2-byte lengths, one of them empty, decoded
\* to its end
C20_Witness ==
    /\ AUWellFormed
    /\ au.lengthSize = 2
    /\ au.state = "done"
    /\ Len(au.nalus) = 3
    /\ \E i \in DOMAIN au.nalus : au.nalus[i].l = 0
    /\ \E i \in DOMAIN au.nalus : au.nalus[i].l = 2

====
